---- MODULE Spec2Model ----
(***************************************************************************)
(* Build orchestration of pctl (deviantony/pctl).                          *)
(*                                                                         *)
(* The model follows internal/build/orchestrator.go: BuildServices starts  *)
(* one goroutine per service, each goroutine takes a semaphore permit,     *)
(* runs buildService (hash, tag, existence check, strategy by mode) and    *)
(* sends one BuildResult; the caller collects the results and returns      *)
(* either the complete tag map or (nil, error).  The redeploy command      *)
(* (cmd/redeploy) validates the build configuration, calls BuildServices,  *)
(* transforms the compose file and updates the stack.                      *)
(***************************************************************************)
EXTENDS Integers, Sequences, FiniteSets, TLC

(* ------------------------------ bounds -------------------------------- *)

\* largest number of services with a build directive in one run
MaxServices == 2

\* largest CPU count the remote engine or the local host reports
MaxCPU == 3

\* number of goroutines that call the logger at the same time
MaxLoggers == 2

\* number of lines each of them logs
MaxLines == 2

(* ----------------------- configuration constants ---------------------- *)

BuildModeRemoteBuild == "remote-build"
BuildModeLoad == "load"
BuildParallelAuto == "auto"

\* values of BuildConfig.Mode: the two recognised modes and one other value
Modes == {BuildModeRemoteBuild, BuildModeLoad, "swarm"}

\* values of BuildConfig.Parallel: auto, an explicit integer, a zero
ParallelValues == {BuildParallelAuto, "2", "0"}

\* the stack name of the run
StackName == "demo"

\* BuildConfig.TagFormat as the sequence of its literal pieces and placeholders
DefaultBuildTagFormat == <<"pctl-", "{{stack}}", "-", "{{service}}", ":", "{{hash}}">>

\* values of BuildConfig.Parallel a configuration file can hold: also a
\* negative integer and a word
ParallelValuesAll == ParallelValues \cup {"-1", "abc"}

\* the placeholders GenerateTag and ValidateTagFormat know
ValidVars == {"{{stack}}", "{{service}}", "{{hash}}", "{{timestamp}}"}

\* values of BuildConfig.TagFormat: the default, a template with an unknown
\* variable, a template with a space in it, a template with an unclosed variable
TagFormats == {DefaultBuildTagFormat,
               <<"{{service}}", ":", "{{version}}">>,
               <<"my app", ":", "{{hash}}">>,
               <<"pctl-", "{{service}}", ":", "{{hash">>}

\* keys and values of build arguments
ArgKeys == {"A", "B"}
ArgValues == {"1", "2"}

\* the maps from build-argument keys to values
ArgMaps == UNION {[D -> ArgValues] : D \in SUBSET ArgKeys}

\* a Go map value: nil, or a map with its entries
NilMap == [nil |-> TRUE, m |-> <<>>]
MapOf(m) == [nil |-> FALSE, m |-> m]

\* values of serviceInfo.Build.Args: nil when the compose service names no
\* args, the parsed map otherwise
ServiceArgs == {NilMap} \cup {MapOf(m) : m \in ArgMaps \ {<<>>}}

\* values of BuildConfig.ExtraBuildArgs: GetBuildConfig never leaves it nil
ExtraArgs == {MapOf(<<>>), MapOf([k \in {"A"} |-> "2"]), MapOf([k \in {"B"} |-> "2"])}

\* how the Dockerfile of a context behaves when HashBuildContext reads it:
\* it opens and reads; it opens and the read fails; it does not open and is
\* among the regular files the walk collects; it does not open and is not
\* among them (missing, ignored, or outside the context)
DockerfileStates == {"readable", "readfail", "openfail_walked", "openfail_unwalked"}

\* content hashes a build context can have
Hashes == {"a1", "b2", "a0", "b0"}

\* the content hash of the build context of the i-th service, when it can be read
ContextHash(i) == IF i % 2 = 1 THEN "a1" ELSE "b2"

\* the content hash of the same context when the Dockerfile's contents were
\* not fed to the hasher
ContextHashNoDockerfile(i) == IF i % 2 = 1 THEN "a0" ELSE "b0"

(* ------------------------------- state -------------------------------- *)

VARIABLES
  numServices,  \* len(servicesWithBuild)
  Mode,         \* BuildConfig.Mode
  Parallel,     \* BuildConfig.Parallel
  ForceBuild,   \* BuildConfig.ForceBuild
  TagFormat,    \* BuildConfig.TagFormat, as the sequence of its pieces
  ExtraBuildArgs, \* BuildConfig.ExtraBuildArgs
  dockerfile,   \* how the Dockerfile of each service's context can be read
  composeArgs,  \* the build args of each service as the compose file gives them
  cli,          \* position of the caller: the redeploy command or a direct call
  mainPc,       \* position of BuildServices
  parallel,     \* the value getParallelism returned (capacity of the semaphore)
  semaphore,    \* number of permits held
  pc,           \* position of each service goroutine
  hash,         \* content hash computed for each service ("" before, "err" on failure)
  exists,       \* answer of ImageExists for each service ("none" when not asked)
  warned,       \* services for which LogWarn was called
  bimg,         \* state of the BuildImage call of each service
  noCache,      \* no-cache setting of the build call issued for each service
  cmd,          \* state of the local build goroutine and its docker command
  stream,       \* state of the io.Pipe between the local build and LoadImage
  load,         \* state of the LoadImage call of each service
  result,       \* the BuildResult buildService returned for each service
  svcArgs,      \* serviceInfo.Build.Args of each service (the map the caller owns)
  submitted,    \* the build arguments submitted with the build call of each service
  results,      \* the results channel (buffered, capacity numServices)
  resultsClosed,\* close(results) has happened
  imageTags,    \* the map BuildServices fills while collecting
  buildErrors,  \* the errors BuildServices appends while collecting
  ret,          \* what BuildServices returned
  compose,      \* the compose content the command holds
  stackUpdate,  \* the stack update request sent to Portainer
  sideEffects,  \* whether BuildServices has logged a line and asked for the Docker info
  call,         \* a function of the program under evaluation: its inputs and results
  mu,           \* StyledBuildLogger.mu: 0 when unlocked, the caller that holds it
  logPc,        \* position of each caller of the logger inside a log method
  stdout        \* the lines printed to standard output

vars == <<numServices, Mode, Parallel, ForceBuild, TagFormat, ExtraBuildArgs,
          dockerfile, composeArgs, cli, mainPc, parallel,
          semaphore, pc, hash, exists, warned, bimg, noCache, cmd, stream,
          load, result, svcArgs, submitted, results, resultsClosed, imageTags,
          buildErrors, ret, compose, stackUpdate, call, mu, logPc, stdout,
          sideEffects>>

configVars == <<numServices, Mode, Parallel, ForceBuild, TagFormat, ExtraBuildArgs,
                dockerfile, composeArgs>>
taskVars == <<pc, hash, exists, warned, bimg, noCache, cmd, stream, load, result,
              svcArgs, submitted>>
collectVars == <<results, resultsClosed, imageTags, buildErrors, ret>>
cliVars == <<cli, compose, stackUpdate>>
logVars == <<mu, logPc, stdout>>

\* everything a run of the redeploy command and of BuildServices reads or writes
runVars == <<configVars, cliVars, taskVars, collectVars, mainPc, parallel, semaphore,
             sideEffects>>

Services == 1..numServices

\* ServiceBuildInfo.ServiceName of the i-th service
ServiceName(i) == "svc" \o ToString(i)

NoResult == [ServiceName |-> "", ImageTag |-> <<>>, Success |-> FALSE, Error |-> "unset"]

NotReturned == [returned |-> FALSE, nilMap |-> FALSE, tags |-> <<>>, errCount |-> 0, errFirst |-> NoResult]

(* --------------------------- pure functions --------------------------- *)

\* a plausible slip: the second argument is returned
maxSecond(a, b) == b

\* max of two integers (orchestrator.go)
max(a, b) == IF a > b THEN a ELSE b

\* strconv.Atoi on the Parallel strings of the model: does it parse
AtoiOk(str) == str \in {"0", "1", "2", "-1"}

\* strconv.Atoi on the Parallel strings of the model: the parsed value
AtoiVal(str) == CASE str = "0" -> 0 [] str = "1" -> 1 [] str = "2" -> 2 [] str = "-1" -> -1 [] OTHER -> 0

\* answers of GetDockerInfo: an error, a map without NCPU, a map with NCPU = k
DockerInfos == {[err |-> TRUE, hasNCPU |-> FALSE, NCPU |-> 0],
                [err |-> FALSE, hasNCPU |-> FALSE, NCPU |-> 0]}
               \cup {[err |-> FALSE, hasNCPU |-> TRUE, NCPU |-> k] : k \in 1..MaxCPU}

\* getParallelism: info is the GetDockerInfo answer, numCPU is runtime.NumCPU()
getParallelism(par, info, numCPU) ==
  IF par = BuildParallelAuto
    THEN IF info.err THEN max(1, numCPU - 1)
         ELSE IF info.hasNCPU THEN max(1, info.NCPU - 1)
         ELSE max(1, numCPU - 1)
    ELSE IF ~AtoiOk(par) THEN 1
         ELSE max(1, AtoiVal(par))

\* BuildConfig.Validate: TRUE when it returns nil
Validate(mode, par) ==
  /\ mode = BuildModeRemoteBuild \/ mode = BuildModeLoad
  /\ (par # BuildParallelAuto => ~(par = "" \/ par = "0"))

\* strings.ReplaceAll of one placeholder, on one piece of the template
RenderPiece(piece, serviceName, contentHash) ==
  CASE piece = "{{stack}}" -> StackName
    [] piece = "{{service}}" -> serviceName
    [] piece = "{{hash}}" -> contentHash
    [] piece = "{{timestamp}}" -> "now"
    [] OTHER -> piece

\* TagGenerator.GenerateTag with the configured template
GenerateTag(serviceName, contentHash) ==
  [i \in 1..Len(TagFormat) |-> RenderPiece(TagFormat[i], serviceName, contentHash)]

\* strings.Index(piece, "{{") # -1, on the pieces of the model
HasOpen(piece) == piece \in ValidVars \cup {"{{version}}", "{{hash"}

\* strings.Index(piece, "}}") # -1, on the pieces of the model
HasClose(piece) == piece \in ValidVars \cup {"{{version}}"}

\* which characters a piece of a tag is made of
PieceChars(piece) ==
  CASE piece \in {"my app"} -> "whitespace"
    [] piece = ":" -> "colon"
    [] HasOpen(piece) \/ HasClose(piece) -> "braces"
    [] OTHER -> "valid"

\* TagValidator.ValidateTag on a tag given as its pieces (every tag of the
\* model is shorter than 128 characters): TRUE when it returns nil
ValidateTagPieces(tag) ==
  LET colons == {i \in DOMAIN tag : PieceChars(tag[i]) = "colon"} IN
  /\ tag # <<>>
  /\ \A i \in DOMAIN tag : PieceChars(tag[i]) # "whitespace"
  /\ Cardinality(colons) <= 1
  /\ \A i \in colons : i # 1 /\ i # Len(tag)
  /\ \A i \in DOMAIN tag : PieceChars(tag[i]) \in {"valid", "colon"}

\* the sample values ValidateTagFormat renders the template with
RenderSample(piece) ==
  CASE piece = "{{stack}}" -> "test-stack"
    [] piece = "{{service}}" -> "test-service"
    [] piece = "{{hash}}" -> "abc123"
    [] piece = "{{timestamp}}" -> "1234567890"
    [] OTHER -> piece

\* TagTemplateValidator.ValidateTagFormat: TRUE when it returns nil.  A
\* variable that opens and never closes is an error; one that closes in a
\* later piece spans several pieces and is no valid variable
ValidateTagFormat(tagFormat) ==
  /\ tagFormat # <<>>
  /\ \A i \in DOMAIN tagFormat :
        HasOpen(tagFormat[i]) => (HasClose(tagFormat[i]) /\ tagFormat[i] \in ValidVars)
  /\ ValidateTagPieces([i \in DOMAIN tagFormat |-> RenderSample(tagFormat[i])])

\* the values of the attributes of a service in the compose files of the
\* model
BuildHere == <<".">>
ImageNginx == <<"nginx">>
PortsWeb == <<"3000:3000">>

\* the compose file of the run: the services with a build directive and one
\* service that only names an image; a service is the map of its attributes
ComposeOf(n) ==
  [name \in {ServiceName(i) : i \in 1..n} \cup {"proxy"} |->
     IF name = "proxy" THEN [image |-> ImageNginx]
     ELSE [build |-> BuildHere, ports |-> PortsWeb]]

\* ComposeFile.HasBuildDirectives
HasBuildDirectives(content) == \E name \in DOMAIN content : "build" \in DOMAIN content[name]

\* TransformComposeFile: TRUE when it returns no error
TransformOk(content, tags) == DOMAIN tags \subseteq DOMAIN content

\* a plausible slip: the service of a tag is replaced by a fresh map that
\* holds the image only
TransformComposeFileFreshMap(content, tags) ==
  [name \in DOMAIN content |->
     IF name \in DOMAIN tags THEN [image |-> tags[name]] ELSE content[name]]

\* TransformComposeFile: the transformed content.  For every name of the tag
\* map: delete(serviceMap, "build"); serviceMap["image"] = imageTag
TransformComposeFile(content, tags) ==
  [name \in DOMAIN content |->
     IF name \in DOMAIN tags
       THEN [attr \in (DOMAIN content[name] \ {"build"}) \cup {"image"} |->
               IF attr = "image" THEN tags[name] ELSE content[name][attr]]
       ELSE content[name]]

\* TransformResult.ValidateTransformation: TRUE when it returns no error
ValidateTransformation(transformed, tags) ==
  \A name \in DOMAIN tags :
    /\ name \in DOMAIN transformed
    /\ "build" \notin DOMAIN transformed[name]
    /\ "image" \in DOMAIN transformed[name]
    /\ transformed[name]["image"] = tags[name]

(* ---------------------------- initial state --------------------------- *)

\* no function is under evaluation
NoCall == [op |-> "none"]

\* the build arguments of a service before its build call
NotSubmitted == [kind |-> "none", BuildArgs |-> NilMap, argv |-> <<>>]

InitConfig ==
  /\ numServices \in 0..MaxServices
  /\ Mode \in Modes
  /\ Parallel \in ParallelValues
  /\ ForceBuild \in BOOLEAN
  /\ TagFormat = DefaultBuildTagFormat
  /\ ExtraBuildArgs = MapOf(<<>>)
  /\ dockerfile = [s \in Services |-> "readable"]
  /\ composeArgs = [s \in Services |-> NilMap]
  /\ svcArgs = composeArgs
  /\ call = NoCall

\* one service, and every value a configuration file and a compose file can
\* give to the build configuration, the build arguments and the Dockerfile
InitConfigAll ==
  /\ numServices = 1
  /\ Mode \in Modes
  /\ Parallel \in ParallelValuesAll
  /\ ForceBuild \in BOOLEAN
  /\ TagFormat \in TagFormats
  /\ ExtraBuildArgs \in ExtraArgs
  /\ dockerfile \in [Services -> DockerfileStates]
  /\ composeArgs \in [Services -> ServiceArgs]
  /\ svcArgs = composeArgs
  /\ call = NoCall

InitRun ==
  /\ mainPc = "idle"
  /\ parallel = 0
  /\ semaphore = 0
  /\ pc = [s \in Services |-> "unlaunched"]
  /\ hash = [s \in Services |-> ""]
  /\ exists = [s \in Services |-> "none"]
  /\ warned = {}
  /\ bimg = [s \in Services |-> "none"]
  /\ noCache = [s \in Services |-> "none"]
  /\ cmd = [s \in Services |-> "none"]
  /\ stream = [s \in Services |-> "none"]
  /\ load = [s \in Services |-> "none"]
  /\ result = [s \in Services |-> NoResult]
  /\ submitted = [s \in Services |-> NotSubmitted]
  /\ sideEffects = [logged |-> FALSE, dockerInfoAsked |-> FALSE]
  /\ mu = 0
  /\ logPc = [c \in 1..MaxLoggers |-> [at |-> "idle", method |-> "none", lines |-> 0]]
  /\ stdout = <<>>
  /\ results = <<>>
  /\ resultsClosed = FALSE
  /\ imageTags = <<>>
  /\ buildErrors = <<>>
  /\ ret = NotReturned
  /\ compose = ComposeOf(numServices)
  /\ stackUpdate = [sent |-> FALSE, content |-> <<>>, pullImages |-> FALSE]

\* a caller that constructs the orchestrator and calls BuildServices itself
Init == InitConfig /\ InitRun /\ cli = "direct"

\* the redeploy command, before it validates the build configuration
InitRedeploy == InitConfig /\ InitRun /\ cli = "start"

\* the redeploy command of a stack with one service to build, with any
\* configuration
InitRedeployConfig == InitConfigAll /\ InitRun /\ cli = "start"

\* no run of the build is under way: a function of the program is evaluated
\* on its own
InitIdle ==
  /\ numServices = 0
  /\ Mode = BuildModeRemoteBuild
  /\ Parallel = BuildParallelAuto
  /\ ForceBuild = FALSE
  /\ TagFormat = DefaultBuildTagFormat
  /\ ExtraBuildArgs = MapOf(<<>>)
  /\ dockerfile = [s \in Services |-> "readable"]
  /\ composeArgs = [s \in Services |-> NilMap]
  /\ svcArgs = composeArgs
  /\ InitRun
  /\ cli = "none"

(* ---------------------- BuildServices: the caller --------------------- *)

\* a plausible slip: every goroutine reads the variable of the loop, which
\* holds the last service
SuccessLoopVariable(s) ==
  [ServiceName |-> ServiceName(s),
   ImageTag |-> GenerateTag(ServiceName(numServices), hash[numServices]),
   Success |-> TRUE, Error |-> "nil"]

\* the BuildResult of a success (built or skipped)
Success(s) ==
  [ServiceName |-> ServiceName(s), ImageTag |-> GenerateTag(ServiceName(s), hash[s]),
   Success |-> TRUE, Error |-> "nil"]

\* the BuildResult of a failure: no tag, the error
Failure(s, err) ==
  [ServiceName |-> ServiceName(s), ImageTag |-> <<>>, Success |-> FALSE, Error |-> err]

\* a plausible slip: the test of the empty list is missing
NoServicesNever(n) == FALSE

\* len(servicesWithBuild) == 0
NoServices(n) == n = 0

\* BuildServices up to the creation of the semaphore: the empty list returns
\* at once; otherwise the first line is logged and getParallelism, which
\* asks for the Docker info when Parallel is auto, sizes the semaphore
BuildServicesEnter ==
  /\ mainPc = "idle"
  /\ cli \in {"direct", "build"}
  /\ IF NoServices(numServices)
       THEN /\ mainPc' = "returned"
            /\ ret' = [NotReturned EXCEPT !.returned = TRUE]
            /\ UNCHANGED <<parallel, sideEffects>>
       ELSE /\ \E info \in DockerInfos, numCPU \in 1..MaxCPU :
                 parallel' = getParallelism(Parallel, info, numCPU)
            /\ sideEffects' = [logged |-> TRUE,
                               dockerInfoAsked |-> Parallel = BuildParallelAuto]
            /\ mainPc' = "launch"
            /\ UNCHANGED ret
  /\ UNCHANGED <<configVars, call, logVars, cliVars, taskVars, semaphore, results, resultsClosed,
                 imageTags, buildErrors>>

\* the loop that starts one goroutine per service, and the goroutine that
\* waits for them
Launch ==
  /\ mainPc = "launch"
  /\ mainPc' = "collect"
  /\ pc' = [s \in Services |-> "waiting"]
  /\ UNCHANGED <<configVars, call, logVars, sideEffects, svcArgs, submitted, cliVars, parallel, semaphore, hash, exists, warned,
                 bimg, noCache, cmd, stream, load, result, collectVars>>

\* a plausible slip: the channel is closed once some goroutine has finished
WaitGroupDoneEarly == \E s \in Services : pc[s] = "done"

\* wg.Wait() returns: every goroutine has called wg.Done()
WaitGroupDone == \A s \in Services : pc[s] = "done"

\* wg.Wait() returned in the waiting goroutine: close(results)
CloseResults ==
  /\ mainPc = "collect"
  /\ ~resultsClosed
  /\ WaitGroupDone
  /\ resultsClosed' = TRUE
  /\ UNCHANGED <<configVars, call, logVars, sideEffects, cliVars, taskVars, mainPc, parallel, semaphore,
                 results, imageTags, buildErrors, ret>>

\* one iteration of the range over the results channel
Collect ==
  /\ mainPc = "collect"
  /\ results # <<>>
  /\ LET r == Head(results) IN
       IF r.Success
         THEN /\ imageTags' = (r.ServiceName :> r.ImageTag) @@ imageTags
              /\ UNCHANGED buildErrors
         ELSE /\ buildErrors' = Append(buildErrors, r)
              /\ UNCHANGED imageTags
  /\ results' = Tail(results)
  /\ UNCHANGED <<configVars, call, logVars, sideEffects, cliVars, taskVars, mainPc, parallel, semaphore,
                 resultsClosed, ret>>

\* a plausible slip: the error reported is the one collected last
AggregateLastError(tags, errs) ==
  IF Len(errs) > 0
    THEN [returned |-> TRUE, nilMap |-> TRUE, tags |-> <<>>,
          errCount |-> Len(errs), errFirst |-> errs[Len(errs)]]
    ELSE [returned |-> TRUE, nilMap |-> FALSE, tags |-> tags,
          errCount |-> 0, errFirst |-> NoResult]

\* a plausible slip: the tags collected so far are returned with the error
AggregatePartial(tags, errs) ==
  IF Len(errs) > 0
    THEN [returned |-> TRUE, nilMap |-> FALSE, tags |-> tags,
          errCount |-> Len(errs), errFirst |-> errs[1]]
    ELSE [returned |-> TRUE, nilMap |-> FALSE, tags |-> tags,
          errCount |-> 0, errFirst |-> NoResult]

\* what BuildServices returns once the channel is drained and closed
Aggregate(tags, errs) ==
  IF Len(errs) > 0
    THEN [returned |-> TRUE, nilMap |-> TRUE, tags |-> <<>>,
          errCount |-> Len(errs), errFirst |-> errs[1]]
    ELSE [returned |-> TRUE, nilMap |-> FALSE, tags |-> tags,
          errCount |-> 0, errFirst |-> NoResult]

\* the range ends (channel closed and empty): check for failures and return
Return ==
  /\ mainPc = "collect"
  /\ results = <<>>
  /\ resultsClosed
  /\ ret' = Aggregate(imageTags, buildErrors)
  /\ mainPc' = "returned"
  /\ UNCHANGED <<configVars, call, logVars, sideEffects, cliVars, taskVars, parallel, semaphore, results,
                 resultsClosed, imageTags, buildErrors>>

(* ------------------ BuildServices: the service goroutines ------------- *)

\* semaphore <- struct{}{}: blocks while all permits are taken
Acquire(s) ==
  /\ s \in Services
  /\ pc[s] = "waiting"
  /\ semaphore < parallel
  /\ semaphore' = semaphore + 1
  /\ pc' = [pc EXCEPT ![s] = "holding"]
  /\ UNCHANGED <<configVars, call, logVars, sideEffects, svcArgs, submitted, cliVars, mainPc, parallel, hash, exists, warned,
                 bimg, noCache, cmd, stream, load, result, collectVars>>

\* what HashBuildContext can return for the context of the i-th service: the
\* hash, or an error ("err").  A Dockerfile that does not open is passed over
\* and the hash is computed without its contents; the error then comes only
\* from the loop over the walked files, when the Dockerfile is one of them.
\* The walk and the other files can fail in every case
HashOutcomes(i, d) ==
  CASE d = "readable" -> {ContextHash(i), "err"}
    [] d = "readfail" -> {"err"}
    [] d = "openfail_walked" -> {"err"}
    [] OTHER -> {ContextHashNoDockerfile(i), "err"}

\* buildService, first part: HashBuildContext and GenerateTag
HashBuildContext(s) ==
  /\ s \in Services
  /\ pc[s] = "holding"
  /\ \E h \in HashOutcomes(s, dockerfile[s]) :
       /\ hash' = [hash EXCEPT ![s] = h]
       /\ IF h = "err"
            THEN /\ result' = [result EXCEPT ![s] = Failure(s, "failed to generate content hash")]
                 /\ pc' = [pc EXCEPT ![s] = "send"]
            ELSE /\ pc' = [pc EXCEPT ![s] = "tagged"]
                 /\ UNCHANGED result
  /\ UNCHANGED <<configVars, call, logVars, sideEffects, svcArgs, submitted, cliVars, mainPc, parallel, semaphore, exists, warned,
                 bimg, noCache, cmd, stream, load, collectVars>>

\* answers of ImageExists: (true, nil), (false, nil), (_, err)
ImageExistsAnswers == {"true", "false", "err"}

\* a plausible slip: the existence check is made even under ForceBuild
ConsultImageExistsAlways(force) == TRUE

\* is the existence check made at all
ConsultImageExists(force) == ~force

\* a plausible slip: an existing image does not stop the build
DecideNeverSkip(answer) == "build"

\* a plausible slip: an error of the existence check fails the service
DecideErrFatal(answer) == IF answer = "err" THEN "fail" ELSE IF answer = "true" THEN "skip" ELSE "build"

\* what buildService does with the answer: skip the build or go on to it
Decide(answer) == IF answer = "err" THEN "build" ELSE IF answer = "true" THEN "skip" ELSE "build"

\* buildService, second part: the existence check unless ForceBuild
CheckImageExists(s) ==
  /\ s \in Services
  /\ pc[s] = "tagged"
  /\ IF ConsultImageExists(ForceBuild)
       THEN \E answer \in ImageExistsAnswers :
              /\ exists' = [exists EXCEPT ![s] = answer]
              /\ warned' = IF answer = "err" THEN warned \cup {s} ELSE warned
              /\ CASE Decide(answer) = "skip" ->
                        /\ result' = [result EXCEPT ![s] = Success(s)]
                        /\ pc' = [pc EXCEPT ![s] = "send"]
                   [] Decide(answer) = "build" ->
                        /\ pc' = [pc EXCEPT ![s] = "dispatch"]
                        /\ UNCHANGED result
                   [] OTHER ->
                        /\ result' = [result EXCEPT ![s] = Failure(s, "image check failed")]
                        /\ pc' = [pc EXCEPT ![s] = "send"]
       ELSE /\ pc' = [pc EXCEPT ![s] = "dispatch"]
            /\ UNCHANGED <<exists, warned, result>>
  /\ UNCHANGED <<configVars, call, logVars, sideEffects, svcArgs, submitted, cliVars, mainPc, parallel, semaphore, hash,
                 bimg, noCache, cmd, stream, load, collectVars>>

\* a plausible slip: the default branch of the switch builds remotely
StrategyDefaultRemote(mode) ==
  CASE mode = BuildModeLoad -> "buildLocal"
    [] OTHER -> "buildRemote"

\* the switch on BuildConfig.Mode
Strategy(mode) ==
  CASE mode = BuildModeRemoteBuild -> "buildRemote"
    [] mode = BuildModeLoad -> "buildLocal"
    [] OTHER -> "unsupported"

\* CreateTarStream succeeds on a directory; the context HashBuildContext has
\* just walked is one
CreateTarStreamOk(s) == hash[s] \in Hashes

\* BuildOptions.NoCache, and the --no-cache argument of the local build
NoCacheOption(force) == IF force THEN "on" ELSE "off"

\* a plausible slip: on a key collision the service's own value is kept
MergeBuildArgsKeepService(svc, extra) ==
  IF DOMAIN extra.m = {} THEN svc ELSE MapOf(svc.m @@ extra.m)

\* BuildOptions.BuildArgs after the loop over ExtraBuildArgs: the service's
\* map with every extra entry written into it (a nil map is made first)
MergeBuildArgs(svc, extra) ==
  IF DOMAIN extra.m = {} THEN svc ELSE MapOf(extra.m @@ svc.m)

\* serviceInfo.Build.Args after the loop over ExtraBuildArgs: it is the map
\* BuildOptions.BuildArgs was assigned from, unless that was nil
ArgsAfterMerge(svc, extra) == IF svc.nil THEN svc ELSE MergeBuildArgs(svc, extra)

\* the orders a range over a map can visit its entries in
RangeOrders(m) ==
  {[i \in 1..Cardinality(DOMAIN m) |-> <<f[i], m[f[i]]>>] :
     f \in {g \in [1..Cardinality(DOMAIN m) -> DOMAIN m] :
              \A i, j \in 1..Cardinality(DOMAIN m) : i # j => g[i] # g[j]}}

\* the --build-arg arguments of the local build command: the service's
\* entries, then the extra entries
BuildArgFlags(svc, extra) ==
  {a \o b : a \in RangeOrders(svc.m), b \in RangeOrders(extra.m)}

\* buildService, last part: the switch on the mode, then buildRemote up to the
\* BuildImage call or buildLocal up to the return of buildLocalImage
SelectStrategy(s) ==
  /\ s \in Services
  /\ pc[s] = "dispatch"
  /\ CASE Strategy(Mode) = "buildRemote" ->
            IF CreateTarStreamOk(s)
              THEN /\ bimg' = [bimg EXCEPT ![s] = "active"]
                   /\ noCache' = [noCache EXCEPT ![s] = NoCacheOption(ForceBuild)]
                   /\ submitted' = [submitted EXCEPT ![s] =
                        [kind |-> "BuildOptions",
                         BuildArgs |-> MergeBuildArgs(svcArgs[s], ExtraBuildArgs),
                         argv |-> <<>>]]
                   /\ svcArgs' = [svcArgs EXCEPT ![s] = ArgsAfterMerge(@, ExtraBuildArgs)]
                   /\ pc' = [pc EXCEPT ![s] = "remote"]
                   /\ UNCHANGED <<cmd, stream, result>>
              ELSE /\ result' = [result EXCEPT ![s] = Failure(s, "failed to create context tar")]
                   /\ pc' = [pc EXCEPT ![s] = "send"]
                   /\ UNCHANGED <<bimg, noCache, cmd, stream, svcArgs, submitted>>
       [] Strategy(Mode) = "buildLocal" ->
            /\ cmd' = [cmd EXCEPT ![s] = "spawned"]
            /\ stream' = [stream EXCEPT ![s] = "open"]
            /\ pc' = [pc EXCEPT ![s] = "local"]
            /\ UNCHANGED <<bimg, noCache, result, svcArgs, submitted>>
       [] OTHER ->
            /\ result' = [result EXCEPT ![s] = Failure(s, "unsupported build mode")]
            /\ pc' = [pc EXCEPT ![s] = "send"]
            /\ UNCHANGED <<bimg, noCache, cmd, stream, svcArgs, submitted>>
  /\ UNCHANGED <<configVars, call, logVars, sideEffects, cliVars, mainPc, parallel, semaphore, hash, exists,
                 warned, load, collectVars>>

\* results of BuildImage: nil or an error
BuildImageResults == {"ok", "err"}

\* buildRemote after BuildImage returned
BuildImageReturn(s) ==
  /\ s \in Services
  /\ pc[s] = "remote"
  /\ \E r \in BuildImageResults :
       /\ bimg' = [bimg EXCEPT ![s] = r]
       /\ result' = [result EXCEPT ![s] =
                       IF r = "ok" THEN Success(s) ELSE Failure(s, "remote build failed")]
  /\ pc' = [pc EXCEPT ![s] = "send"]
  /\ UNCHANGED <<configVars, call, logVars, sideEffects, svcArgs, submitted, cliVars, mainPc, parallel, semaphore, hash, exists,
                 warned, noCache, cmd, stream, load, collectVars>>

\* the goroutine of buildLocalImage up to cmd.Run: the arguments, the command,
\* the stderr pipe (whose failure closes the writer with the error)
CmdStart(s) ==
  /\ s \in Services
  /\ cmd[s] = "spawned"
  /\ noCache' = [noCache EXCEPT ![s] = NoCacheOption(ForceBuild)]
  /\ \E flags \in BuildArgFlags(svcArgs[s], ExtraBuildArgs) :
       submitted' = [submitted EXCEPT ![s] =
                       [kind |-> "argv", BuildArgs |-> NilMap, argv |-> flags]]
  /\ \E pipeOk \in BOOLEAN :
       IF pipeOk
         THEN /\ cmd' = [cmd EXCEPT ![s] = "running"]
              /\ UNCHANGED stream
         ELSE /\ cmd' = [cmd EXCEPT ![s] = "pipefail"]
              /\ stream' = [stream EXCEPT ![s] = IF @ = "open" THEN "err" ELSE @]
  /\ UNCHANGED <<configVars, call, logVars, sideEffects, svcArgs, cliVars, mainPc, parallel, semaphore, pc, hash,
                 exists, warned, bimg, load, result, collectVars>>

\* a plausible slip: the writer is closed without the error of cmd.Run
StreamAfterRunClose(code) == "eof"

\* how the goroutine closes the pipe writer after cmd.Run: CloseWithError on a
\* failure, the deferred Close (end of stream) otherwise
StreamAfterRun(code) == IF code # 0 THEN "err" ELSE "eof"

\* cmd.Run returns.  The command writes the archive into the pipe, so it ends
\* with exit code 0 only while LoadImage is reading the other end
CmdExit(s) ==
  /\ s \in Services
  /\ cmd[s] = "running"
  /\ \E code \in {0, 1} :
       /\ code = 0 => (load[s] = "active" /\ stream[s] = "open")
       /\ cmd' = [cmd EXCEPT ![s] = IF code = 0 THEN "exit0" ELSE "exitfail"]
       /\ stream' = [stream EXCEPT ![s] = IF @ = "open" THEN StreamAfterRun(code) ELSE @]
  /\ UNCHANGED <<configVars, call, logVars, sideEffects, svcArgs, submitted, cliVars, mainPc, parallel, semaphore, pc, hash,
                 exists, warned, bimg, noCache, load, result, collectVars>>

\* buildLocal calls LoadImage with the read end of the pipe
LoadImage(s) ==
  /\ s \in Services
  /\ pc[s] = "local"
  /\ load' = [load EXCEPT ![s] = "active"]
  /\ pc' = [pc EXCEPT ![s] = "loading"]
  /\ UNCHANGED <<configVars, call, logVars, sideEffects, svcArgs, submitted, cliVars, mainPc, parallel, semaphore, hash, exists,
                 warned, bimg, noCache, cmd, stream, result, collectVars>>

\* results LoadImage can return for a state of the stream it uploads: an error
\* at any time (network failure, client timeout), nil only once the stream has
\* ended cleanly
LoadImageResults(st) == IF st = "eof" THEN {"ok", "err"} ELSE {"err"}

\* buildLocal after LoadImage returned; the deferred imageTar.Close() closes
\* the read end
LoadImageReturn(s) ==
  /\ s \in Services
  /\ pc[s] = "loading"
  /\ \E r \in LoadImageResults(stream[s]) :
       /\ load' = [load EXCEPT ![s] = r]
       /\ result' = [result EXCEPT ![s] =
                       IF r = "ok" THEN Success(s) ELSE Failure(s, "failed to load image")]
  /\ stream' = [stream EXCEPT ![s] = "closed"]
  /\ pc' = [pc EXCEPT ![s] = "send"]
  /\ UNCHANGED <<configVars, call, logVars, sideEffects, svcArgs, submitted, cliVars, mainPc, parallel, semaphore, hash, exists,
                 warned, bimg, noCache, cmd, collectVars>>

\* results <- result
SendResult(s) ==
  /\ s \in Services
  /\ pc[s] = "send"
  /\ Len(results) < numServices
  /\ results' = Append(results, result[s])
  /\ pc' = [pc EXCEPT ![s] = "release"]
  /\ UNCHANGED <<configVars, call, logVars, sideEffects, svcArgs, submitted, cliVars, mainPc, parallel, semaphore, hash, exists,
                 warned, bimg, noCache, cmd, stream, load, result, resultsClosed,
                 imageTags, buildErrors, ret>>

\* a plausible slip: the goroutine ends without giving its permit back
ReleaseKeepPermit(s) ==
  /\ s \in Services
  /\ pc[s] = "release"
  /\ pc' = [pc EXCEPT ![s] = "done"]
  /\ UNCHANGED <<configVars, call, logVars, sideEffects, svcArgs, submitted, cliVars, mainPc, parallel, semaphore, hash, exists, warned,
                 bimg, noCache, cmd, stream, load, result, collectVars>>

\* the deferred calls of the goroutine: release the permit, then wg.Done()
Release(s) ==
  /\ s \in Services
  /\ pc[s] = "release"
  /\ semaphore' = semaphore - 1
  /\ pc' = [pc EXCEPT ![s] = "done"]
  /\ UNCHANGED <<configVars, call, logVars, sideEffects, svcArgs, submitted, cliVars, mainPc, parallel, hash, exists, warned,
                 bimg, noCache, cmd, stream, load, result, collectVars>>

(* --------------------------- redeploy command ------------------------- *)

\* runRedeploy up to the BuildServices call: build directives are looked for,
\* the build configuration is validated
RedeployPrepare ==
  /\ cli = "start"
  /\ cli' = IF ~HasBuildDirectives(compose) THEN "getstack"
            ELSE IF ~Validate(Mode, Parallel) THEN "exit: invalid build configuration"
            ELSE "build"
  /\ UNCHANGED <<configVars, call, logVars, sideEffects, compose, stackUpdate, mainPc, parallel, semaphore,
                 taskVars, collectVars>>

\* a plausible slip: the error of BuildServices is not checked
BuildFailedIgnored(r) == FALSE

\* does runRedeploy stop on what BuildServices returned
BuildFailed(r) == r.errCount > 0

\* runRedeploy after BuildServices returned: stop on an error, otherwise
\* transform the compose content and validate the transformation
RedeployTransform ==
  /\ cli = "build"
  /\ ret.returned
  /\ IF BuildFailed(ret)
       THEN cli' = "exit: build failed" /\ UNCHANGED compose
       ELSE IF ~TransformOk(compose, ret.tags)
         THEN cli' = "exit: failed to transform compose file" /\ UNCHANGED compose
       ELSE IF ~ValidateTransformation(TransformComposeFile(compose, ret.tags), ret.tags)
         THEN cli' = "exit: compose transformation validation failed" /\ UNCHANGED compose
       ELSE cli' = "getstack" /\ compose' = TransformComposeFile(compose, ret.tags)
  /\ UNCHANGED <<configVars, call, logVars, sideEffects, stackUpdate, mainPc, parallel, semaphore, taskVars,
                 collectVars>>

\* answers of GetStack: an error, no such stack, the stack
GetStackAnswers == {"err", "nil", "stack"}

\* runRedeploy: look the stack up
RedeployGetStack ==
  /\ cli = "getstack"
  /\ \E a \in GetStackAnswers :
       cli' = CASE a = "err" -> "exit: failed to check for existing stack"
                [] a = "nil" -> "exit: stack not found"
                [] OTHER -> "update"
  /\ UNCHANGED <<configVars, call, logVars, sideEffects, compose, stackUpdate, mainPc, parallel, semaphore,
                 taskVars, collectVars>>

\* runRedeploy: send the stack update with the final compose content
RedeployUpdateStack ==
  /\ cli = "update"
  /\ stackUpdate' = [sent |-> TRUE, content |-> compose, pullImages |-> numServices = 0]
  /\ \E ok \in BOOLEAN :
       cli' = IF ok THEN "done" ELSE "exit: failed to update stack"
  /\ UNCHANGED <<configVars, call, logVars, sideEffects, compose, mainPc, parallel, semaphore, taskVars,
                 collectVars>>

(* ---------------------------- specifications -------------------------- *)

\* the steps of the goroutine of service s and of its local build
Task(s) ==
  \/ Acquire(s)
  \/ HashBuildContext(s)
  \/ CheckImageExists(s)
  \/ SelectStrategy(s)
  \/ BuildImageReturn(s)
  \/ CmdStart(s)
  \/ CmdExit(s)
  \/ LoadImage(s)
  \/ LoadImageReturn(s)
  \/ SendResult(s)
  \/ Release(s)

\* a run of BuildServices
BuildServices ==
  \/ BuildServicesEnter
  \/ Launch
  \/ CloseResults
  \/ Collect
  \/ Return
  \/ \E s \in 1..MaxServices : Task(s)

\* BuildServices called directly, with any BuildConfig
Next == BuildServices

Spec == Init /\ [][Next]_vars

\* the scheduler runs some goroutine that can take a step, and every remote
\* call and every local build returns: BuildServices does not stop while one
\* of its steps can be taken
Fairness == WF_vars(Next)

\* BuildServices under a fair scheduler, with calls that return
SpecLive == Init /\ [][Next]_vars /\ Fairness

\* the redeploy command
NextRedeploy ==
  \/ RedeployPrepare
  \/ BuildServices
  \/ RedeployTransform
  \/ RedeployGetStack
  \/ RedeployUpdateStack

SpecRedeploy == InitRedeploy /\ [][NextRedeploy]_vars

\* the redeploy command of one service, with any configuration
SpecRedeployConfig == InitRedeployConfig /\ [][NextRedeploy]_vars

(* ------------------------- HashBuildContext --------------------------- *)

\* strings are sequences of bytes
BytesDockerfile == <<68, 111, 99, 107, 101, 114, 102, 105, 108, 101>>                \* "Dockerfile"
BytesDockerfilePath == <<68, 79, 67, 75, 69, 82, 70, 73, 76, 69, 95, 80, 65, 84, 72, 58, 10>>                    \* "DOCKERFILE_PATH:\n"
BytesDockerfileContents == <<10, 68, 79, 67, 75, 69, 82, 70, 73, 76, 69, 95, 67, 79, 78, 84, 69, 78, 84, 83, 58, 10>>                \* "\nDOCKERFILE_CONTENTS:\n"
BytesBuildArgs == <<10, 66, 85, 73, 76, 68, 95, 65, 82, 71, 83, 58, 10>>                         \* "\nBUILD_ARGS:\n"
BytesFile == <<70, 73, 76, 69, 58, 10>>                               \* "FILE:\n"
BytesEquals == <<61>>                            \* "="
BytesNewline == <<10>>                           \* "\n"

\* the files a context of the model can hold: "a" with contents "x" or
\* "xFILE:\nb\ny", and "b" with contents "y"
FileA == <<97>>
FileB == <<98>>
ContentsX == <<120>>
ContentsY == <<121>>
ContentsXFileBY == ContentsX \o BytesFile \o FileB \o BytesNewline \o ContentsY

\* the regular files of a context: relative path -> contents
FileTrees ==
  {t \in UNION {[D -> {ContentsX, ContentsY, ContentsXFileBY}] : D \in SUBSET {FileA, FileB}} :
     /\ (FileA \in DOMAIN t => t[FileA] # ContentsY)
     /\ (FileB \in DOMAIN t => t[FileB] = ContentsY)}

\* the patterns of .dockerignore: none, or the one line "b"
IgnorePatterns == {{}, {FileB}}

\* the Dockerfile of a context: one that does not open, or its contents
HashDockerfiles == {[opens |-> FALSE, bytes |-> <<>>],
                    [opens |-> TRUE, bytes |-> <<70>>],
                    [opens |-> TRUE, bytes |-> <<71>>]}

\* the buildArgs maps: key -> value, both bytes
HashBuildArgs ==
  {<<>>,
   [k \in {<<65>>} |-> <<49>>],
   [k \in {<<65>>} |-> <<50>>],
   [k \in {<<65>>, <<66>>} |-> <<49>>]}

\* the orders in which a set can be visited
Orders(S) ==
  {f \in [1..Cardinality(S) -> S] : \A i, j \in 1..Cardinality(S) : i # j => f[i] # f[j]}

\* the inputs of one HashBuildContext call: the Dockerfile, the build
\* arguments and the order the range over them takes, the files, the ignore
\* patterns and the order the walk visits the files in
HashInputs ==
  {[dockerfilePath |-> <<>>, dockerfile |-> d, buildArgs |-> a, keyOrder |-> ko,
    files |-> t, patterns |-> ig, walkOrder |-> wo] :
     d \in HashDockerfiles, a \in HashBuildArgs, ko \in UNION {Orders(DOMAIN m) : m \in HashBuildArgs},
     t \in FileTrees, ig \in IgnorePatterns, wo \in UNION {Orders(DOMAIN m) : m \in FileTrees}}

\* byte-wise comparison of two strings: a < b
RECURSIVE LessBytes(_, _)
LessBytes(a, b) ==
  IF b = <<>> THEN FALSE
  ELSE IF a = <<>> THEN TRUE
  ELSE IF Head(a) # Head(b) THEN Head(a) < Head(b)
  ELSE LessBytes(Tail(a), Tail(b))

\* insertion of a string into a sorted list
RECURSIVE InsertSorted(_, _)
InsertSorted(x, sorted) ==
  IF sorted = <<>> THEN <<x>>
  ELSE IF LessBytes(Head(sorted), x) THEN <<Head(sorted)>> \o InsertSorted(x, Tail(sorted))
  ELSE <<x>> \o sorted

\* a plausible slip: the list is used in the order it was collected in
RECURSIVE SortStringsUnsorted(_)
SortStringsUnsorted(list) ==
  IF list = <<>> THEN <<>> ELSE <<Head(list)>> \o SortStringsUnsorted(Tail(list))

\* sort.Strings
RECURSIVE SortStrings(_)
SortStrings(list) ==
  IF list = <<>> THEN <<>> ELSE InsertSorted(Head(list), SortStrings(Tail(list)))

\* the bytes "/" and "*"
ByteSlash == <<47>>
ByteStar == <<42>>

\* relative paths and .dockerignore patterns, as bytes
PathAppDotLog == <<97, 112, 112, 46, 108, 111, 103>>  \* "app.log"
PathSubSlashAppDotLog == <<115, 117, 98, 47, 97, 112, 112, 46, 108, 111, 103>>  \* "sub/app.log"
PathNodeModules == <<110, 111, 100, 101, 95, 109, 111, 100, 117, 108, 101, 115>>  \* "node_modules"
PathNodeModulesSlashPkgSlashIndexDotJs == <<110, 111, 100, 101, 95, 109, 111, 100, 117, 108, 101, 115, 47, 112, 107, 103, 47, 105, 110, 100, 101, 120, 46, 106, 115>>  \* "node_modules/pkg/index.js"
PathTemp == <<116, 101, 109, 112>>  \* "temp"
PathTempSlashFileDotTxt == <<116, 101, 109, 112, 47, 102, 105, 108, 101, 46, 116, 120, 116>>  \* "temp/file.txt"
PathTemporary == <<116, 101, 109, 112, 111, 114, 97, 114, 121>>  \* "temporary"
PathSrcSlashMainDotGo == <<115, 114, 99, 47, 109, 97, 105, 110, 46, 103, 111>>  \* "src/main.go"
PathStarDotLogSlashX == <<42, 46, 108, 111, 103, 47, 120>>  \* "*.log/x"
PatternStarDotLog == <<42, 46, 108, 111, 103>>  \* "*.log"
PatternNodeModulesSlash == <<110, 111, 100, 101, 95, 109, 111, 100, 117, 108, 101, 115, 47>>  \* "node_modules/"
PatternTemp == <<116, 101, 109, 112>>  \* "temp"
PatternTempSlash == <<116, 101, 109, 112, 47>>  \* "temp/"
PatternStarSlashStarDotLog == <<42, 47, 42, 46, 108, 111, 103>>  \* "*/*.log"
PatternTStar == <<116, 42>>  \* "t*"
PatternSrcSlashMainDotGo == <<115, 114, 99, 47, 109, 97, 105, 110, 46, 103, 111>>  \* "src/main.go"
PatternStar == <<42>>  \* "*"
PatternStarDotLogSlash == <<42, 46, 108, 111, 103, 47>>  \* "*.log/"

RelPaths == {PathAppDotLog, PathSubSlashAppDotLog, PathNodeModules, PathNodeModulesSlashPkgSlashIndexDotJs, PathTemp, PathTempSlashFileDotTxt, PathTemporary, PathSrcSlashMainDotGo, PathStarDotLogSlashX}

Patterns == {PatternStarDotLog, PatternNodeModulesSlash, PatternTemp, PatternTempSlash, PatternStarSlashStarDotLog, PatternTStar, PatternSrcSlashMainDotGo, PatternStar, PatternStarDotLogSlash}

\* strings.HasPrefix
HasPrefix(str, prefix) ==
  /\ Len(prefix) <= Len(str)
  /\ SubSeq(str, 1, Len(prefix)) = prefix

\* strings.HasSuffix
HasSuffix(str, suffix) ==
  /\ Len(suffix) <= Len(str)
  /\ SubSeq(str, Len(str) - Len(suffix) + 1, Len(str)) = suffix

\* strings.TrimSuffix
TrimSuffix(str, suffix) ==
  IF HasSuffix(str, suffix) THEN SubSeq(str, 1, Len(str) - Len(suffix)) ELSE str

\* strings.Contains for a one-byte substring
Contains(str, byte) == \E i \in DOMAIN str : <<str[i]>> = byte

\* filepath.Match for patterns made of literal bytes and "*": a star stands
\* for any sequence of bytes other than "/"
RECURSIVE Match(_, _)
Match(pattern, name) ==
  IF pattern = <<>> THEN name = <<>>
  ELSE IF <<Head(pattern)>> = ByteStar
    THEN \/ Match(Tail(pattern), name)
         \/ (name # <<>> /\ <<Head(name)>> # ByteSlash /\ Match(pattern, Tail(name)))
  ELSE name # <<>> /\ Head(name) = Head(pattern) /\ Match(Tail(pattern), Tail(name))

\* a plausible slip: the rule for a bare directory name is missing
matchesPatternNoPrefix(relPath, pattern) ==
  IF HasSuffix(pattern, ByteSlash)
    THEN \/ HasPrefix(relPath, TrimSuffix(pattern, ByteSlash) \o ByteSlash)
         \/ relPath = TrimSuffix(pattern, ByteSlash)
  ELSE IF Contains(pattern, ByteStar) THEN Match(pattern, relPath)
  ELSE relPath = pattern

\* matchesPattern
matchesPattern(relPath, pattern) ==
  IF HasSuffix(pattern, ByteSlash)
    THEN \/ HasPrefix(relPath, TrimSuffix(pattern, ByteSlash) \o ByteSlash)
         \/ relPath = TrimSuffix(pattern, ByteSlash)
  ELSE IF Contains(pattern, ByteStar) THEN Match(pattern, relPath)
  ELSE IF relPath = pattern THEN TRUE
  ELSE IF HasPrefix(relPath, pattern \o ByteSlash) THEN TRUE
  ELSE FALSE

\* shouldIgnore: some pattern of the list matches
shouldIgnore(rel, patterns) == \E pattern \in patterns : matchesPattern(rel, pattern)

\* the bytes written for the build arguments, keys in the given order
RECURSIVE WriteBuildArgs(_, _)
WriteBuildArgs(keys, buildArgs) ==
  IF keys = <<>> THEN <<>>
  ELSE Head(keys) \o BytesEquals \o buildArgs[Head(keys)] \o BytesNewline
       \o WriteBuildArgs(Tail(keys), buildArgs)

\* the bytes written for the files, in the given order
RECURSIVE WriteFiles(_, _)
WriteFiles(rels, files) ==
  IF rels = <<>> THEN <<>>
  ELSE BytesFile \o Head(rels) \o BytesNewline \o files[Head(rels)]
       \o WriteFiles(Tail(rels), files)

\* everything HashBuildContext writes to the hasher, in order
HashWrites(in) ==
  LET dockerfileRel == IF in.dockerfilePath = <<>> THEN BytesDockerfile ELSE in.dockerfilePath
      walked == SelectSeq(in.walkOrder, LAMBDA rel : ~shouldIgnore(rel, in.patterns))
  IN BytesDockerfilePath \o dockerfileRel
     \o (IF in.dockerfile.opens THEN BytesDockerfileContents \o in.dockerfile.bytes ELSE <<>>)
     \o (IF DOMAIN in.buildArgs # {}
           THEN BytesBuildArgs \o WriteBuildArgs(SortStrings(in.keyOrder), in.buildArgs)
           ELSE <<>>)
     \o WriteFiles(SortStrings(walked), in.files)

\* a 24-bit position-weighted checksum of the bytes lo..hi of a sequence
RECURSIVE Checksum(_, _, _, _)
Checksum(bytes, mult, lo, hi) ==
  IF lo > hi THEN 0
  ELSE IF lo = hi THEN (bytes[lo] * ((lo * mult + 1) % 65521)) % 16777216
  ELSE (Checksum(bytes, mult, lo, (lo + hi) \div 2)
        + Checksum(bytes, mult, ((lo + hi) \div 2) + 1, hi)) % 16777216

\* hasher.Sum, fmt.Sprintf("%x")[:12].  SHA-256 is not computed: a fixed
\* function of the bytes written stands for it, and the result is the 12
\* leading hexadecimal digits of its value
HexDigest12(bytes) ==
  LET hi == Checksum(bytes, 8191, 1, Len(bytes))
      lo == Checksum(bytes, 131, 1, Len(bytes))
  IN [i \in 1..12 |-> IF i <= 6 THEN (hi \div (16 ^ (6 - i))) % 16
                      ELSE (lo \div (16 ^ (12 - i))) % 16]

\* the inputs are consistent: the orders enumerate the keys and the files
HashInputOk(in) ==
  /\ {in.keyOrder[i] : i \in DOMAIN in.keyOrder} = DOMAIN in.buildArgs
  /\ Len(in.keyOrder) = Cardinality(DOMAIN in.buildArgs)
  /\ {in.walkOrder[i] : i \in DOMAIN in.walkOrder} = DOMAIN in.files
  /\ Len(in.walkOrder) = Cardinality(DOMAIN in.files)

\* two HashBuildContext calls are about to be made
InitHash ==
  /\ InitIdle
  /\ \E x, y \in {in \in HashInputs : HashInputOk(in)} :
       call = [op |-> "HashBuildContext", done |-> FALSE, x |-> x, y |-> y,
               writesX |-> <<>>, writesY |-> <<>>, hashX |-> <<>>, hashY |-> <<>>]

\* both calls return
CallHashBuildContext ==
  /\ call.op = "HashBuildContext"
  /\ ~call.done
  /\ call' = [call EXCEPT !.done = TRUE,
                          !.writesX = HashWrites(call.x),
                          !.writesY = HashWrites(call.y),
                          !.hashX = HexDigest12(HashWrites(call.x)),
                          !.hashY = HexDigest12(HashWrites(call.y))]
  /\ UNCHANGED <<runVars, logVars>>

SpecHash == InitHash /\ [][CallHashBuildContext]_vars

(* --------------------------- getParallelism --------------------------- *)

\* a getParallelism call is about to be made: the Parallel value, the answer
\* GetDockerInfo will give and the CPU count of the local host
InitParallelism ==
  /\ InitIdle
  /\ \E par \in ParallelValuesAll, info \in DockerInfos, numCPU \in 1..MaxCPU :
       call = [op |-> "getParallelism", done |-> FALSE, par |-> par, info |-> info,
               numCPU |-> numCPU, out |-> 0]

\* the call returns
CallGetParallelism ==
  /\ call.op = "getParallelism"
  /\ ~call.done
  /\ call' = [call EXCEPT !.done = TRUE,
                          !.out = getParallelism(call.par, call.info, call.numCPU)]
  /\ UNCHANGED <<runVars, logVars>>

SpecParallelism == InitParallelism /\ [][CallGetParallelism]_vars

(* --------------------------- StyledBuildLogger ------------------------ *)

\* the four log methods
LogMethods == {"LogService", "LogInfo", "LogWarn", "LogError"}

\* a plausible slip: the method does not take the mutex
MutexFreeUnlocked(m) == TRUE

\* can l.mu.Lock() return: the mutex is not held
MutexFree(m) == m = 0

\* caller c enters a log method: l.mu.Lock() returns
LogLock(c) ==
  /\ logPc[c].at = "idle"
  /\ logPc[c].lines < MaxLines
  /\ MutexFree(mu)
  /\ mu' = c
  /\ \E method \in LogMethods :
       logPc' = [logPc EXCEPT ![c] = [at |-> "locked", method |-> method, lines |-> @.lines]]
  /\ UNCHANGED <<runVars, call, stdout>>

\* the line is formatted: cleanDockerLine, the styles, fmt.Sprintf
LogFormat(c) ==
  /\ logPc[c].at = "locked"
  /\ logPc' = [logPc EXCEPT ![c].at = "formatted"]
  /\ UNCHANGED <<runVars, call, mu, stdout>>

\* fmt.Println(line)
LogPrintln(c) ==
  /\ logPc[c].at = "formatted"
  /\ stdout' = Append(stdout, [caller |-> c, line |-> logPc[c].lines + 1])
  /\ logPc' = [logPc EXCEPT ![c].at = "printed"]
  /\ UNCHANGED <<runVars, call, mu>>

\* the deferred l.mu.Unlock(), and the return
LogUnlock(c) ==
  /\ logPc[c].at = "printed"
  /\ mu' = 0
  /\ logPc' = [logPc EXCEPT ![c] = [at |-> "idle", method |-> "none", lines |-> @.lines + 1]]
  /\ UNCHANGED <<runVars, call, stdout>>

\* goroutines that log through one StyledBuildLogger
NextLogger ==
  \E c \in 1..MaxLoggers : LogLock(c) \/ LogFormat(c) \/ LogPrintln(c) \/ LogUnlock(c)

\* a logger nobody has called yet
InitLogger == InitIdle /\ call = NoCall

SpecLogger == InitLogger /\ [][NextLogger]_vars

(* ---------------------------- matchesPattern -------------------------- *)

\* a matchesPattern call is about to be made
InitIgnore ==
  /\ InitIdle
  /\ \E relPath \in RelPaths, pattern \in Patterns :
       call = [op |-> "matchesPattern", done |-> FALSE, relPath |-> relPath,
               pattern |-> pattern, out |-> FALSE]

\* the call returns
CallMatchesPattern ==
  /\ call.op = "matchesPattern"
  /\ ~call.done
  /\ call' = [call EXCEPT !.done = TRUE, !.out = matchesPattern(call.relPath, call.pattern)]
  /\ UNCHANGED <<runVars, logVars>>

SpecIgnore == InitIgnore /\ [][CallMatchesPattern]_vars

(* ------------- the build parameters, the hash and the tag ------------- *)

\* the bytes of the keys and values of the build arguments
ArgBytes(str) ==
  CASE str = "A" -> <<65>>
    [] str = "B" -> <<66>>
    [] str = "1" -> <<49>>
    [] str = "2" -> <<50>>

\* serviceInfo.Build.Args as HashBuildContext reads it: key -> value, both
\* bytes; a nil map has no entry
HashArgsOf(svc) ==
  [k \in {ArgBytes(key) : key \in DOMAIN svc.m} |->
     ArgBytes(svc.m[CHOOSE key \in DOMAIN svc.m : ArgBytes(key) = k])]

\* values of BuildDirective.Target: none, or a stage
Targets == {"", "prod"}

\* the build parameters of a service in one version of the configuration
\* and of the compose file
BuildParams == [args : ServiceArgs, extra : ExtraArgs, target : Targets]

\* buildService: the content hash of a service whose context holds the file
\* a and a Dockerfile that reads; the third argument of HashBuildContext is
\* serviceInfo.Build.Args
ContentHashOf(params) ==
  HexDigest12(HashWrites([dockerfilePath |-> <<>>,
                          dockerfile |-> [opens |-> TRUE, bytes |-> <<70>>],
                          buildArgs |-> HashArgsOf(params.args),
                          keyOrder |-> CHOOSE f \in Orders(DOMAIN HashArgsOf(params.args)) : TRUE,
                          files |-> [rel \in {FileA} |-> ContentsX],
                          patterns |-> {}, walkOrder |-> <<FileA>>]))

\* buildRemote: the options submitted with the build
BuildOptionsOf(params) ==
  [BuildArgs |-> MergeBuildArgs(params.args, params.extra), Target |-> params.target]

\* ImageExists on a host that holds the image of an earlier build and no
\* other image of the service
ImageExistsAfter(builtTag, tag) == IF tag = builtTag THEN "true" ELSE "false"

\* a service is about to be built with the parameters x and then, the
\* context unchanged and ForceBuild off, processed again with the parameters y
InitParams ==
  /\ InitIdle
  /\ \E x, y \in BuildParams :
       call = [op |-> "buildService", done |-> FALSE, x |-> x, y |-> y,
               hashX |-> <<>>, hashY |-> <<>>, tagX |-> <<>>, tagY |-> <<>>,
               submittedX |-> BuildOptionsOf(x), submittedY |-> BuildOptionsOf(y),
               decisionY |-> "none"]

\* both runs of buildService reach their decision
CallBuildService ==
  /\ call.op = "buildService"
  /\ ~call.done
  /\ call' = [call EXCEPT
                !.done = TRUE,
                !.hashX = ContentHashOf(call.x),
                !.hashY = ContentHashOf(call.y),
                !.tagX = GenerateTag(ServiceName(1), ContentHashOf(call.x)),
                !.tagY = GenerateTag(ServiceName(1), ContentHashOf(call.y)),
                !.decisionY = Decide(ImageExistsAfter(
                                GenerateTag(ServiceName(1), ContentHashOf(call.x)),
                                GenerateTag(ServiceName(1), ContentHashOf(call.y))))]
  /\ UNCHANGED <<runVars, logVars>>

SpecParams == InitParams /\ [][CallBuildService]_vars

(* --------------------------- tag validation --------------------------- *)

\* the longest sequence of characters of the alphabet among the tags of
\* the model
MaxShortTag == 3

\* the longest tag ValidateTag accepts
MaxTagLength == 128

\* ':', and the characters ValidateTag looks for first: space, tab, newline,
\* carriage return
ByteColon == 58
InvalidChars == {<<32>>, <<9>>, <<10>>, <<13>>}

\* the alphabet of the short tags: a Z 5 - _ . : space tab @ { /
TagAlphabet == {97, 90, 53, 45, 95, 46, 58, 32, 9, 64, 123, 47}

\* n times the letter a
LongTag(n) == [i \in 1..n |-> 97]

\* the tags of the model: every short sequence over the alphabet, and tags
\* around the length limit
TagInputs ==
  UNION {[1..n -> TagAlphabet] : n \in 0..MaxShortTag}
    \cup {LongTag(MaxTagLength), LongTag(MaxTagLength + 1),
          LongTag(MaxTagLength - 2) \o <<ByteColon, 97>>,
          LongTag(MaxTagLength - 1) \o <<ByteColon, 97>>,
          LongTag(MaxTagLength) \o <<32>>}

\* strings.Split(s, sep) for a separator of one byte
RECURSIVE Split(_, _)
Split(str, sep) ==
  IF \E i \in DOMAIN str : str[i] = sep
    THEN LET first == CHOOSE i \in DOMAIN str :
                         str[i] = sep /\ \A j \in 1..(i - 1) : str[j] # sep
         IN <<SubSeq(str, 1, first - 1)>> \o Split(SubSeq(str, first + 1, Len(str)), sep)
    ELSE <<str>>

\* a plausible slip: the dot is left out
isValidTagCharNoDot(char) ==
  \/ (char >= 97 /\ char <= 122)
  \/ (char >= 65 /\ char <= 90)
  \/ (char >= 48 /\ char <= 57)
  \/ char = 45 \/ char = 95

\* isValidTagChar
isValidTagChar(char) ==
  \/ (char >= 97 /\ char <= 122)
  \/ (char >= 65 /\ char <= 90)
  \/ (char >= 48 /\ char <= 57)
  \/ char = 45 \/ char = 95 \/ char = 46

\* TagValidator.ValidateTag on the bytes of a tag: the error it returns,
\* "nil" when it returns none
ValidateTag(tag) ==
  LET parts == Split(tag, ByteColon) IN
  IF tag = <<>> THEN "tag cannot be empty"
  ELSE IF Len(tag) > MaxTagLength THEN "tag too long"
  ELSE IF \E char \in InvalidChars : Contains(tag, char) THEN "tag contains invalid character"
  ELSE IF Len(parts) > 2 THEN "tag has too many parts"
  ELSE IF \E i \in DOMAIN parts :
            /\ \A k \in 1..(i - 1) :
                 parts[k] # <<>> /\ \A j \in DOMAIN parts[k] : isValidTagChar(parts[k][j])
            /\ parts[i] = <<>>
         THEN "tag part is empty"
  ELSE IF \E i \in DOMAIN parts : \E j \in DOMAIN parts[i] : ~isValidTagChar(parts[i][j])
         THEN "tag part contains invalid character"
  ELSE "nil"

\* a tag is about to be validated
InitTag ==
  /\ InitIdle
  /\ \E tag \in TagInputs :
       call = [op |-> "ValidateTag", done |-> FALSE, tag |-> tag, err |-> "nil"]

\* ValidateTag returns
CallValidateTag ==
  /\ call.op = "ValidateTag"
  /\ ~call.done
  /\ call' = [call EXCEPT !.done = TRUE, !.err = ValidateTag(call.tag)]
  /\ UNCHANGED <<runVars, logVars>>

SpecTag == InitTag /\ [][CallValidateTag]_vars

(* ------------------- the compose file transformation ------------------ *)

\* the services of the compose files of the model, as maps of attributes
ServiceShapes ==
  {[build |-> BuildHere],
   [build |-> BuildHere, ports |-> PortsWeb],
   [image |-> ImageNginx, ports |-> PortsWeb],
   [build |-> BuildHere, image |-> ImageNginx, ports |-> PortsWeb]}

\* the compose files of the model: the service web, with or without the
\* service db
ComposeContents ==
  UNION {[names -> ServiceShapes] : names \in {{"web"}, {"web", "db"}}}

\* the tag maps of the model: tags for some of web, db and a service the
\* compose file does not have
ImageTagMaps ==
  UNION {[names -> {<<"web", ":", "a1">>, <<"db", ":", "b2">>}] :
           names \in SUBSET {"web", "db", "nonexistent"}}

\* a compose file is about to be transformed
InitTransform ==
  /\ InitIdle
  /\ \E content \in ComposeContents, tags \in ImageTagMaps :
       call = [op |-> "TransformComposeFile", done |-> FALSE, originalContent |-> content,
               imageTags |-> tags, err |-> FALSE, out |-> <<>>]

\* TransformComposeFile returns
CallTransformComposeFile ==
  /\ call.op = "TransformComposeFile"
  /\ ~call.done
  /\ call' = [call EXCEPT
                !.done = TRUE,
                !.err = ~TransformOk(call.originalContent, call.imageTags),
                !.out = IF TransformOk(call.originalContent, call.imageTags)
                          THEN TransformComposeFile(call.originalContent, call.imageTags)
                          ELSE <<>>]
  /\ UNCHANGED <<runVars, logVars>>

SpecTransform == InitTransform /\ [][CallTransformComposeFile]_vars

(* ------------------- the walks over a build context ------------------- *)

\* paths of a context with a directory: "a", "d", "d/b"; the pattern "d*"
PathD == <<100>>
PathDSlashB == <<100, 47, 98>>
PatternDStar == <<100, 42>>

\* what a path of a context can be: a regular file with its mode and bytes, a
\* directory, a symbolic link with its target
FileX644 == [type |-> "file", mode |-> 420, bytes |-> ContentsX, target |-> <<>>]
FileX755 == [type |-> "file", mode |-> 493, bytes |-> ContentsX, target |-> <<>>]
FileY644 == [type |-> "file", mode |-> 420, bytes |-> ContentsY, target |-> <<>>]
Dir755 == [type |-> "dir", mode |-> 493, bytes |-> <<>>, target |-> <<>>]
SymlinkToA == [type |-> "symlink", mode |-> 511, bytes |-> <<>>, target |-> FileA]

\* the contexts of the model: relative path -> what is there
ContextTrees ==
  {t \in UNION {[D -> {FileX644, FileX755, FileY644, Dir755, SymlinkToA}] :
                   D \in SUBSET {FileA, PathD, PathDSlashB}} :
     /\ (FileA \in DOMAIN t => t[FileA].type = "file")
     /\ (PathD \in DOMAIN t => t[PathD].type \in {"dir", "symlink"})
     /\ (PathDSlashB \in DOMAIN t =>
           (PathD \in DOMAIN t /\ t[PathD].type = "dir" /\ t[PathDSlashB] = FileX644))}

\* the .dockerignore of the model: empty, the line "d*", the line "a"
ContextPatterns == {{}, {PatternDStar}, {FileA}}

\* the directories above a relative path
Ancestors(rel) == {SubSeq(rel, 1, i - 1) : i \in {j \in DOMAIN rel : <<rel[j]>> = ByteSlash}}

\* a plausible slip: the callback returns nil for an ignored directory and
\* the walk goes down into it
ReachedNoSkipDir(rel, patterns) == TRUE

\* filepath.Walk with the callbacks' SkipDir: a path is visited unless the
\* callback answered SkipDir for a directory above it
Reached(rel, patterns) == \A anc \in Ancestors(rel) : ~shouldIgnore(anc, patterns)

\* the paths for which the callback gets past the ignore test, in the
\* lexical order of the walk
Accepted(tree, patterns) ==
  LET visited == {rel \in DOMAIN tree : Reached(rel, patterns)}
      walk == SortStrings(CHOOSE f \in Orders(visited) : TRUE)
  IN SelectSeq(walk, LAMBDA rel : ~shouldIgnore(rel, patterns))

\* HashBuildContext: the files list, sorted
HashFileList(tree, patterns) ==
  SortStrings(SelectSeq(Accepted(tree, patterns), LAMBDA rel : tree[rel].type = "file"))

\* the Dockerfile paths of the model: unset (the file "Dockerfile", which no
\* context of the model has), "a", "d/b"
ContextDockerfilePaths == {<<>>, FileA, PathDSlashB}

\* os.Open of the Dockerfile succeeds: the path names a file of the context
DockerfileOpens(tree, dockerfilePath) ==
  dockerfilePath \in DOMAIN tree /\ tree[dockerfilePath].type = "file"

\* HashBuildContext on a context: the bytes written
HashWritesOfContext(tree, patterns, dockerfilePath) ==
  HashWrites([dockerfilePath |-> dockerfilePath,
              dockerfile |-> IF DockerfileOpens(tree, dockerfilePath)
                               THEN [opens |-> TRUE, bytes |-> tree[dockerfilePath].bytes]
                               ELSE [opens |-> FALSE, bytes |-> <<>>],
              buildArgs |-> <<>>, keyOrder |-> <<>>,
              files |-> [rel \in {r \in DOMAIN tree : tree[r].type = "file"} |-> tree[rel].bytes],
              patterns |-> patterns, walkOrder |-> HashFileList(tree, patterns)])

\* the files whose contents HashBuildContext writes to the hasher: the
\* Dockerfile when it opens, and the files list
HashCoveredFiles(tree, patterns, dockerfilePath) ==
  (IF DockerfileOpens(tree, dockerfilePath) THEN {dockerfilePath} ELSE {})
    \cup {HashFileList(tree, patterns)[i] : i \in DOMAIN HashFileList(tree, patterns)}

\* writeContextToTar: a header per accepted path (tar.FileInfoHeader is given
\* the empty link name) and the contents of the regular files
TarArchive(tree, patterns) ==
  LET accepted == Accepted(tree, patterns) IN
  [i \in DOMAIN accepted |->
     LET e == tree[accepted[i]] IN
       [Name |-> accepted[i], Typeflag |-> e.type, Mode |-> e.mode, Linkname |-> <<>>,
        Size |-> IF e.type = "file" THEN Len(e.bytes) ELSE 0,
        content |-> IF e.type = "file" THEN e.bytes ELSE <<>>]]

\* GetContextSize: the regular files whose size is added
SizeFileList(tree, patterns) ==
  SelectSeq(Accepted(tree, patterns), LAMBDA rel : tree[rel].type = "file")

\* the sum of the sizes of a list of files
RECURSIVE SumSizes(_, _)
SumSizes(rels, tree) ==
  IF rels = <<>> THEN 0 ELSE Len(tree[Head(rels)].bytes) + SumSizes(Tail(rels), tree)

\* GetContextSize
GetContextSize(tree, patterns) == SumSizes(SizeFileList(tree, patterns), tree)

\* what the three walks produce for one context
WalkResults(in) ==
  [hashed |-> HashFileList(in.tree, in.patterns),
   covered |-> HashCoveredFiles(in.tree, in.patterns, in.dockerfilePath),
   writes |-> HashWritesOfContext(in.tree, in.patterns, in.dockerfilePath),
   hash |-> HexDigest12(HashWritesOfContext(in.tree, in.patterns, in.dockerfilePath)),
   tar |-> TarArchive(in.tree, in.patterns),
   sized |-> SizeFileList(in.tree, in.patterns),
   size |-> GetContextSize(in.tree, in.patterns)]

\* no walk has been made
NoWalk == [hashed |-> <<>>, covered |-> {}, writes |-> <<>>, hash |-> <<>>, tar |-> <<>>,
           sized |-> <<>>, size |-> 0]

\* two versions of a build context are about to be hashed, archived and
\* measured
InitContext ==
  /\ InitIdle
  /\ \E tx, ty \in ContextTrees, px, py \in ContextPatterns,
        dx, dy \in ContextDockerfilePaths :
       call = [op |-> "context", done |-> FALSE,
               x |-> [tree |-> tx, patterns |-> px, dockerfilePath |-> dx],
               y |-> [tree |-> ty, patterns |-> py, dockerfilePath |-> dy],
               rx |-> NoWalk, ry |-> NoWalk]

\* HashBuildContext, CreateTarStream and GetContextSize return for both
CallContextWalks ==
  /\ call.op = "context"
  /\ ~call.done
  /\ call' = [call EXCEPT !.done = TRUE,
                          !.rx = WalkResults(call.x),
                          !.ry = WalkResults(call.y)]
  /\ UNCHANGED <<runVars, logVars>>

SpecContext == InitContext /\ [][CallContextWalks]_vars

(* -------------------------------- claims ------------------------------ *)

\* buildService has returned for service s
Decided(s) == pc[s] \in {"send", "release", "done"}

\* a build call was issued for service s: BuildImage, or the local build
Built(s) == bimg[s] # "none" \/ cmd[s] # "none"

\* service s is doing build or upload work: inside BuildImage, running its
\* local build command, or inside LoadImage
Working(s) == bimg[s] = "active" \/ cmd[s] = "running" \/ load[s] = "active"

\* C1: once BuildServices has returned for a non-empty list, it returned a
\* tag map only if every BuildResult is a success, and if some BuildResult is
\* a failure it returned the nil map, with no tag in it, and an error
C1_AllOrNothing ==
  (ret.returned /\ numServices > 0) =>
     /\ (~ret.nilMap => \A s \in Services : result[s].Success)
     /\ ((\E s \in Services : ~result[s].Success) =>
            (ret.nilMap /\ ret.tags = <<>> /\ ret.errCount > 0))
     /\ ((\A s \in Services : result[s].Success) => (~ret.nilMap /\ ret.errCount = 0))

\* a run in which one service succeeded and another failed has returned
C1_Witness ==
  /\ ret.returned
  /\ ret.nilMap
  /\ \E s \in Services : result[s].Success /\ Built(s)
  /\ \E s \in Services : ~result[s].Success /\ Decided(s)

\* C2: when BuildServices has returned, every launched goroutine has finished
\* and its one BuildResult has been collected, exactly once, in the tag map
\* or in the error list; a failed sibling took no service's result away
C2_ReturnsAfterAllCollected ==
  (ret.returned /\ numServices > 0) =>
     /\ \A s \in Services : pc[s] = "done"
     /\ results = <<>>
     /\ Cardinality(DOMAIN imageTags) + Len(buildErrors) = numServices
     /\ \A s \in Services :
          IF result[s].Success
            THEN /\ ServiceName(s) \in DOMAIN imageTags
                 /\ imageTags[ServiceName(s)] = result[s].ImageTag
            ELSE Cardinality({i \in 1..Len(buildErrors) : buildErrors[i] = result[s]}) = 1

\* a run has returned in which a service was built to the end although a
\* sibling failed
C2_Witness ==
  /\ ret.returned
  /\ \E s, t \in Services :
       /\ ~result[s].Success /\ Decided(s)
       /\ bimg[t] = "ok" /\ result[t].Success
       /\ ServiceName(t) \in DOMAIN imageTags

\* C3: at every moment the number of services doing build or upload work is
\* at most the parallelism the semaphore was created with
C3_AtMostPWorking ==
  mainPc \in {"collect", "returned"} =>
     Cardinality({s \in Services : Working(s)}) <= parallel

\* C4: with ForceBuild off, a service whose existence check answered true has
\* no BuildImage call, no local build and no LoadImage call, and its result is
\* a success carrying the generated tag
C4_SkipWhenImageExists ==
  \A s \in Services :
    (~ForceBuild /\ exists[s] = "true") =>
       /\ bimg[s] = "none" /\ cmd[s] = "none" /\ load[s] = "none" /\ noCache[s] = "none"
       /\ result[s].Success
       /\ result[s].ImageTag = GenerateTag(ServiceName(s), ContextHash(s))
       /\ (ret.returned /\ ~ret.nilMap =>
             ret.tags[ServiceName(s)] = GenerateTag(ServiceName(s), ContextHash(s)))

\* a skipped service whose existing tag was returned in the map
C4_Witness ==
  /\ ~ForceBuild
  /\ ret.returned /\ ~ret.nilMap
  /\ \E s \in Services : exists[s] = "true" /\ ServiceName(s) \in DOMAIN ret.tags

\* C5: in a redeploy with ForceBuild set, ImageExists is never consulted, no
\* service is skipped, every service whose hashing succeeded has reached its
\* build call once buildService has returned, and every build call issued
\* has no-cache enabled
C5_ForceBuildAlwaysBuilds ==
  ForceBuild =>
    \A s \in Services :
      /\ exists[s] = "none"
      /\ (Decided(s) /\ hash[s] \in Hashes) => Built(s)
      /\ bimg[s] # "none" => noCache[s] = "on"
      /\ cmd[s] \in {"running", "exit0", "exitfail"} => noCache[s] = "on"
      /\ result[s].Success => (bimg[s] = "ok" \/ load[s] = "ok")

\* a forced redeploy went through to the end with a service built with
\* no-cache
C5_Witness ==
  /\ ForceBuild
  /\ cli = "done"
  /\ \E s \in Services : noCache[s] = "on" /\ result[s].Success

\* C6: a step in which ImageExists answers with an error logs a warning for
\* the service, leaves it without a result and takes it to the switch on the
\* mode, the place it reaches when the answer is false; no BuildResult ever
\* carries an error of the existence check
C6_ExistsErrorNotFatal ==
  /\ [][\A s \in Services :
          (exists[s] = "none" /\ exists'[s] \in {"err", "false"}) =>
             /\ pc'[s] = "dispatch"
             /\ result'[s] = NoResult
             /\ (exists'[s] = "err" => warned' = warned \cup {s})
             /\ (exists'[s] = "false" => warned' = warned)]_vars
  /\ [](\A s \in Services : result[s].Error # "image check failed")

\* a service whose existence check failed was warned about and then built
C6_Witness ==
  \E s \in Services :
    /\ exists[s] = "err"
    /\ s \in warned
    /\ bimg[s] = "ok"
    /\ result[s].Success
    /\ ret.returned /\ ServiceName(s) \in DOMAIN ret.tags

C8_UpdateOnlyAfterBuildAndTransform ==
  (stackUpdate.sent /\ numServices > 0) =>
     /\ ret.returned /\ ~ret.nilMap /\ ret.errCount = 0
     /\ \A s \in Services : pc[s] = "done" /\ result[s].Success
     /\ stackUpdate.content = TransformComposeFile(ComposeOf(numServices), ret.tags)
     /\ \A name \in DOMAIN stackUpdate.content :
          "build" \notin DOMAIN stackUpdate.content[name]
     /\ \A s \in Services :
          stackUpdate.content[ServiceName(s)].image = result[s].ImageTag
     /\ ~stackUpdate.pullImages

\* a redeploy sent the update after building a service
C8_Witness ==
  /\ stackUpdate.sent
  /\ numServices > 0
  /\ \E s \in Services : Built(s) /\ result[s].Success

NonIgnored(in) ==
  [rel \in {r \in DOMAIN in.files : ~shouldIgnore(r, in.patterns)} |-> in.files[rel]]

\* two inputs have the same Dockerfile, the same build arguments and the same
\* non-ignored files (paths and bytes)
SameHashedContent(x, y) ==
  /\ x.dockerfile = y.dockerfile
  /\ x.buildArgs = y.buildArgs
  /\ NonIgnored(x) = NonIgnored(y)

\* C11: two calls of HashBuildContext whose inputs differ in the Dockerfile's
\* bytes, in a build-argument entry or in the path or bytes of a non-ignored
\* regular file write different byte sequences to the hasher
C11_DifferentInputsDifferentBytes ==
  (call.op = "HashBuildContext" /\ call.done) =>
     (SameHashedContent(call.x, call.y) \/ call.writesX # call.writesY)

\* C12: two calls of HashBuildContext with the same Dockerfile, build
\* arguments and non-ignored files write the same bytes to the hasher and
\* return the same digest of 12 hexadecimal digits, whatever order the walk
\* visits the files in and the range visits the build-argument keys in
C12_OrderIndependent ==
  (call.op = "HashBuildContext" /\ call.done /\ SameHashedContent(call.x, call.y)) =>
     /\ call.writesX = call.writesY
     /\ call.hashX = call.hashY
     /\ Len(call.hashX) = 12
     /\ \A i \in 1..12 : call.hashX[i] \in 0..15

\* two calls over the same two files and two build arguments, visited in
\* opposite orders, returned the same digest
C12_Witness ==
  /\ call.op = "HashBuildContext" /\ call.done
  /\ SameHashedContent(call.x, call.y)
  /\ Len(call.x.walkOrder) = 2 /\ call.x.walkOrder # call.y.walkOrder
  /\ call.x.patterns = {} /\ call.y.patterns = {}
  /\ Len(call.x.keyOrder) = 2 /\ call.x.keyOrder # call.y.keyOrder
  /\ call.hashX = call.hashY

\* C13: a service whose Dockerfile cannot be read during hashing gets an
\* error from HashBuildContext and a failed BuildResult, with no existence
\* check and no build call
C13_UnreadableDockerfileFails ==
  \A s \in Services :
    dockerfile[s] # "readable" =>
       /\ exists[s] = "none" /\ ~Built(s) /\ load[s] = "none"
       /\ Decided(s) => (hash[s] = "err" /\ ~result[s].Success)

\* C14: with a tag template ValidateTagFormat rejects, no ImageExists,
\* BuildImage or LoadImage call and no local build is ever made
C14_InvalidTemplateStopsRun ==
  ~ValidateTagFormat(TagFormat) =>
     \A s \in Services : exists[s] = "none" /\ ~Built(s) /\ load[s] = "none"

\* the Parallel value is a positive integer
PositiveInteger(par) == AtoiOk(par) /\ AtoiVal(par) > 0

\* C15: with a Parallel value that is neither auto nor a positive integer the
\* redeploy command stops at BuildConfig.Validate: BuildServices is never
\* entered
C15_InvalidParallelRejected ==
  (Parallel # BuildParallelAuto /\ ~PositiveInteger(Parallel)) =>
     /\ cli \in {"start", "exit: invalid build configuration"}
     /\ mainPc = "idle"
     /\ \A s \in Services : pc[s] = "unlaunched"

\* C16: getParallelism returns CPU-1 but at least 1 for auto when the host
\* info reports a CPU count, local-CPU-1 but at least 1 when the query
\* fails, the value itself for a positive integer and 1 for a non-numeric or
\* non-positive value; the result is always at least 1
C16_ParallelismAtLeastOne ==
  (call.op = "getParallelism" /\ call.done) =>
     /\ call.out >= 1
     /\ (call.par = BuildParallelAuto /\ ~call.info.err /\ call.info.hasNCPU) =>
           call.out = (IF call.info.NCPU - 1 >= 1 THEN call.info.NCPU - 1 ELSE 1)
     /\ (call.par = BuildParallelAuto /\ call.info.err) =>
           call.out = (IF call.numCPU - 1 >= 1 THEN call.numCPU - 1 ELSE 1)
     /\ (call.par # BuildParallelAuto /\ PositiveInteger(call.par)) =>
           call.out = AtoiVal(call.par)
     /\ (call.par # BuildParallelAuto /\ ~PositiveInteger(call.par)) => call.out = 1

\* a call with an explicit zero returned 1
C16_Witness ==
  /\ call.op = "getParallelism" /\ call.done
  /\ call.par = "0"
  /\ call.out = 1

\* the index of the last --build-arg argument for key k
LastFlag(argv, k) ==
  CHOOSE i \in DOMAIN argv :
    argv[i][1] = k /\ \A j \in DOMAIN argv : argv[j][1] = k => j <= i

\* C17: the build arguments submitted with a build call are the union of the
\* service's own build args and ExtraBuildArgs, the ExtraBuildArgs value
\* standing for every key in both: BuildOptions.BuildArgs is that map, and
\* the --build-arg arguments of the local build are the entries of both maps
\* with, for every key, the merged value in the last argument for that key
C17_ExtraArgsOverride ==
  \A s \in Services :
    LET own == composeArgs[s].m
        extra == ExtraBuildArgs.m
        merged == [k \in DOMAIN own \cup DOMAIN extra |->
                     IF k \in DOMAIN extra THEN extra[k] ELSE own[k]]
    IN /\ submitted[s].kind = "BuildOptions" => submitted[s].BuildArgs.m = merged
       /\ submitted[s].kind = "argv" =>
            /\ {submitted[s].argv[i][1] : i \in DOMAIN submitted[s].argv} = DOMAIN merged
            /\ \A i \in DOMAIN submitted[s].argv :
                 LET k == submitted[s].argv[i][1] IN
                   /\ \/ (k \in DOMAIN own /\ submitted[s].argv[i][2] = own[k])
                      \/ (k \in DOMAIN extra /\ submitted[s].argv[i][2] = extra[k])
                   /\ submitted[s].argv[LastFlag(submitted[s].argv, k)][2] = merged[k]

\* a remote build was submitted with a key on which the service's value gave
\* way to the extra value, next to a key only the service has
C17_Witness ==
  \E s \in Services :
    /\ submitted[s].kind = "BuildOptions"
    /\ bimg[s] = "ok"
    /\ DOMAIN composeArgs[s].m = {"A", "B"}
    /\ \E k \in DOMAIN ExtraBuildArgs.m :
         /\ composeArgs[s].m[k] # ExtraBuildArgs.m[k]
         /\ submitted[s].BuildArgs.m[k] = ExtraBuildArgs.m[k]

\* C18: the build-argument map of every service holds the entries the
\* compose file gave it, at every moment of the run and after it
C18_ServiceArgsUnchanged ==
  \A s \in Services : svcArgs[s] = composeArgs[s]

\* C19: a returned map has exactly one entry per input service, whose tag is
\* the tag generated from that service's own name and own content hash
C19_OneEntryPerService ==
  (ret.returned /\ ~ret.nilMap) =>
     /\ DOMAIN ret.tags = {ServiceName(s) : s \in Services}
     /\ Cardinality(DOMAIN ret.tags) = numServices
     /\ \A s \in Services :
          /\ hash[s] = ContextHash(s)
          /\ ret.tags[ServiceName(s)] = GenerateTag(ServiceName(s), ContextHash(s))

\* a map with the different tags of two services was returned
C19_Witness ==
  /\ ret.returned /\ ~ret.nilMap
  /\ numServices = 2
  /\ ret.tags[ServiceName(1)] # ret.tags[ServiceName(2)]
  /\ Built(1) /\ exists[2] = "true"

\* C20: the error BuildServices returns counts the services whose
\* BuildResult is a failure and carries the failure that was collected first
C20_AggregateError ==
  (ret.returned /\ ret.nilMap) =>
     /\ ret.errCount = Cardinality({s \in Services : ~result[s].Success})
     /\ ret.errCount = Len(buildErrors)
     /\ ret.errFirst = buildErrors[1]
     /\ \E s \in Services : ~result[s].Success /\ ret.errFirst = result[s]
     /\ ret.errFirst.Error \notin {"nil", "unset"}

\* a run with two different failures returned the one collected first
C20_Witness ==
  /\ ret.returned /\ ret.nilMap
  /\ ret.errCount = 2
  /\ buildErrors[1] # buildErrors[2]
  /\ buildErrors[1].ServiceName = ServiceName(2)
  /\ ret.errFirst = buildErrors[1]

\* caller c is inside a log method, between Lock and Unlock
InLogMethod(c) == logPc[c].at \in {"locked", "formatted", "printed"}

\* C21: at most one caller is inside a log method (formatting or printing a
\* line) at any time, it is the caller that holds the mutex, and the mutex is
\* free when no caller is inside
C21_LoggerSerialized ==
  /\ Cardinality({c \in 1..MaxLoggers : InLogMethod(c)}) <= 1
  /\ \A c \in 1..MaxLoggers : InLogMethod(c) <=> mu = c

\* a caller is formatting its line while another one, which has already
\* printed a line, waits for the mutex
C21_Witness ==
  \E c, d \in 1..MaxLoggers :
    /\ c # d
    /\ logPc[c].at = "formatted"
    /\ logPc[d].at = "idle" /\ logPc[d].lines = 1
    /\ Len(stdout) = 1

\* the number of "/" in a string
Separators(str) == Cardinality({i \in DOMAIN str : <<str[i]>> = ByteSlash})

\* C22: matchesPattern applies the first applicable rule among: subtree for a
\* pattern with a trailing slash, glob within segments for a pattern with a
\* star, equality, directory prefix.  "*.log" matches "app.log" and not
\* "sub/app.log", "node_modules/" matches the paths under node_modules,
\* "temp" matches "temp" and "temp/file.txt"
C22_MatchRules ==
  (call.op = "matchesPattern" /\ call.done) =>
     LET p == call.pattern
         r == call.relPath
     IN /\ (p = PatternStarDotLog /\ r = PathAppDotLog) => call.out
        /\ (p = PatternStarDotLog /\ r = PathSubSlashAppDotLog) => ~call.out
        /\ (p = PatternNodeModulesSlash /\ r = PathNodeModulesSlashPkgSlashIndexDotJs) => call.out
        /\ (p = PatternTemp /\ r = PathTemp) => call.out
        /\ (p = PatternTemp /\ r = PathTempSlashFileDotTxt) => call.out
        /\ (p = PatternTemp /\ r = PathTemporary) => ~call.out
        /\ (p = PatternStarDotLogSlash /\ r = PathStarDotLogSlashX) => call.out
        /\ (p = PatternStarDotLogSlash /\ r = PathAppDotLog) => ~call.out
        /\ (p[Len(p)] = 47) =>
              (call.out <=> (\/ r = SubSeq(p, 1, Len(p) - 1)
                            \/ (Len(r) >= Len(p) /\ SubSeq(r, 1, Len(p)) = p)))
        /\ (p[Len(p)] # 47 /\ (\E i \in DOMAIN p : p[i] = 42)) =>
              (call.out => Separators(r) = Separators(p))
        /\ (p[Len(p)] # 47 /\ (\A i \in DOMAIN p : p[i] # 42)) =>
              (call.out <=> (\/ r = p
                            \/ (Len(r) > Len(p) /\ SubSeq(r, 1, Len(p) + 1) = p \o <<47>>)))

\* the call with the pattern "temp" and the path "temp/file.txt" returned
\* true
C22_Witness ==
  /\ call.op = "matchesPattern" /\ call.done
  /\ call.pattern = PatternTemp
  /\ call.relPath = PathTempSlashFileDotTxt
  /\ call.out

\* the elements of a list
Elements(list) == {list[i] : i \in DOMAIN list}

\* the regular files of a context that no pattern matches and that lie under
\* no directory a pattern matches
NonIgnoredFiles(in) ==
  {rel \in DOMAIN in.tree :
     /\ in.tree[rel].type = "file"
     /\ ~shouldIgnore(rel, in.patterns)
     /\ \A i \in DOMAIN rel :
          rel[i] = 47 => ~shouldIgnore(SubSeq(rel, 1, i - 1), in.patterns)}

\* the paths of a context that lie under a directory a pattern matches
UnderIgnoredDirectory(in) ==
  {rel \in DOMAIN in.tree :
     \E i \in DOMAIN rel : rel[i] = 47 /\ shouldIgnore(SubSeq(rel, 1, i - 1), in.patterns)}

\* C23 as stated: the files whose contents enter the hash, the files whose
\* contents the archive carries and the files GetContextSize adds up are the
\* same set, the non-ignored regular files, and no path under an ignored
\* directory is in the hash, in the archive or in the size
C23_SameFileSetAsStated ==
  (call.op = "context" /\ call.done) =>
     LET tarFiles == {call.rx.tar[i].Name :
                        i \in {j \in DOMAIN call.rx.tar : call.rx.tar[j].Typeflag = "file"}}
     IN /\ call.rx.covered = NonIgnoredFiles(call.x)
        /\ tarFiles = NonIgnoredFiles(call.x)
        /\ Elements(call.rx.sized) = NonIgnoredFiles(call.x)
        /\ \A rel \in UnderIgnoredDirectory(call.x) : rel \notin call.rx.covered

\* C23, amended: the files list HashBuildContext collects in its walk, the
\* files whose contents the archive carries and the files GetContextSize adds
\* up are the same set, the non-ignored regular files; no path under an
\* ignored directory is in that list, in the archive or in the size; the one
\* file the hash covers beyond them is the Dockerfile, whose contents are
\* hashed whether or not it is ignored
C23_SameFileSet ==
  (call.op = "context" /\ call.done) =>
     LET tarFiles == {call.rx.tar[i].Name :
                        i \in {j \in DOMAIN call.rx.tar : call.rx.tar[j].Typeflag = "file"}}
         tarNames == {call.rx.tar[i].Name : i \in DOMAIN call.rx.tar}
     IN /\ Elements(call.rx.hashed) = NonIgnoredFiles(call.x)
        /\ tarFiles = NonIgnoredFiles(call.x)
        /\ Elements(call.rx.sized) = NonIgnoredFiles(call.x)
        /\ \A rel \in UnderIgnoredDirectory(call.x) :
             /\ rel \notin Elements(call.rx.hashed)
             /\ rel \notin tarNames
             /\ rel \notin Elements(call.rx.sized)
        /\ call.rx.size =
             SumSizes(CHOOSE f \in Orders(NonIgnoredFiles(call.x)) : TRUE, call.x.tree)
        /\ call.rx.covered \subseteq NonIgnoredFiles(call.x) \cup {call.x.dockerfilePath}
        /\ (call.x.dockerfilePath \in DOMAIN call.x.tree) =>
             call.x.dockerfilePath \in call.rx.covered

\* a context with the file a and the Dockerfile d/b under a directory the
\* pattern "d*" matches: a is covered by all three walks and d/b by none,
\* and the hash covers d/b as the Dockerfile
C23_Witness ==
  /\ call.op = "context" /\ call.done
  /\ call.x.patterns = {PatternDStar}
  /\ call.x.dockerfilePath = PathDSlashB
  /\ PathDSlashB \in DOMAIN call.x.tree
  /\ call.rx.hashed = <<FileA>>
  /\ call.rx.sized = <<FileA>>
  /\ Len(call.rx.tar) = 1
  /\ call.rx.size = 1
  /\ call.rx.covered = {FileA, PathDSlashB}

\* C29: two versions of a context whose archives differ have different
\* content hashes
C29_ArchiveChangeChangesHash ==
  (call.op = "context" /\ call.done /\ call.rx.tar # call.ry.tar) =>
     call.rx.hash # call.ry.hash

\* C24: a TransformComposeFile that returns no error keeps the services of
\* the file; a service named in the tag map has no build directive, has the
\* image of its tag, and has every other attribute as before and no new one;
\* a service not in the map is unchanged; the call returns an error when the
\* map names a service the file does not have
C24_TransformFrame ==
  (call.op = "TransformComposeFile" /\ call.done) =>
     /\ call.err = (\E name \in DOMAIN call.imageTags : name \notin DOMAIN call.originalContent)
     /\ ~call.err =>
          /\ DOMAIN call.out = DOMAIN call.originalContent
          /\ \A name \in DOMAIN call.originalContent :
               LET before == call.originalContent[name]
                   after == call.out[name]
               IN IF name \in DOMAIN call.imageTags
                    THEN /\ "build" \notin DOMAIN after
                         /\ "image" \in DOMAIN after
                         /\ after["image"] = call.imageTags[name]
                         /\ DOMAIN after \ {"image"} = DOMAIN before \ {"build", "image"}
                         /\ \A attr \in DOMAIN before \ {"build", "image"} :
                              after[attr] = before[attr]
                    ELSE after = before

\* a file with web and db, both with a build directive and ports, and a tag
\* for web only: web got its image and kept its ports, db kept its build
C24_Witness ==
  /\ call.op = "TransformComposeFile" /\ call.done /\ ~call.err
  /\ DOMAIN call.imageTags = {"web"}
  /\ call.originalContent = [name \in {"web", "db"} |-> [build |-> BuildHere, ports |-> PortsWeb]]
  /\ call.out["web"] = [image |-> call.imageTags["web"], ports |-> PortsWeb]
  /\ call.out["db"] = [build |-> BuildHere, ports |-> PortsWeb]

\* the characters a segment of a tag may hold: A-Z a-z 0-9 . _ -
TagCharset == (65..90) \cup (97..122) \cup (48..57) \cup {46, 95, 45}

\* whitespace characters: tab, newline, vertical tab, form feed, carriage
\* return, space
Whitespace == {9, 10, 11, 12, 13, 32}

\* the reasons the claim gives for an error
C25_StatedReasons(tag) ==
  \/ tag = <<>>
  \/ Len(tag) > 128
  \/ \E i \in DOMAIN tag : tag[i] \in Whitespace
  \/ Cardinality({i \in DOMAIN tag : tag[i] = 58}) > 1
  \/ \E i \in DOMAIN tag : tag[i] # 58 /\ tag[i] \notin TagCharset

\* C25 as stated: ValidateTag returns an error exactly when the tag is
\* empty, longer than 128 characters, holds whitespace, holds more than one
\* ':' or has a segment with a character outside [A-Za-z0-9._-]
C25_ErrorExactlyWhenStated ==
  (call.op = "ValidateTag" /\ call.done) =>
     ((call.err # "nil") <=> C25_StatedReasons(call.tag))

\* C25, amended: ValidateTag returns an error exactly for the reasons the
\* claim gives and when a segment is empty, that is when the tag begins or
\* ends with its ':'
C25_ErrorExactlyWhen ==
  (call.op = "ValidateTag" /\ call.done) =>
     ((call.err # "nil") <=>
        \/ C25_StatedReasons(call.tag)
        \/ (call.tag # <<>> /\ (call.tag[1] = 58 \/ call.tag[Len(call.tag)] = 58)))

\* the tag ":a", with an empty first segment, was rejected
C25_Witness ==
  /\ call.op = "ValidateTag" /\ call.done
  /\ call.tag = <<58, 97>>
  /\ call.err = "tag part is empty"

\* C26: BuildServices of an empty list does one step: it returns the empty
\* map and no error, having logged no line, asked for no Docker info, sized
\* no semaphore, started no task and checked no image
C26_EmptyListReturnsAtOnce ==
  (numServices = 0 /\ mainPc # "idle") =>
     /\ mainPc = "returned"
     /\ ret.returned /\ ~ret.nilMap /\ ret.tags = <<>> /\ ret.errCount = 0
     /\ ~sideEffects.logged
     /\ ~sideEffects.dockerInfoAsked
     /\ parallel = 0 /\ semaphore = 0
     /\ DOMAIN pc = {} /\ DOMAIN exists = {}
     /\ results = <<>> /\ ~resultsClosed
     /\ warned = {}

\* BuildServices returned for an empty list
C26_Witness ==
  /\ numServices = 0
  /\ mainPc = "returned"
  /\ ret.returned

\* the goroutine of service s is between its acquire and its release
HoldsPermit(s) == pc[s] \notin {"unlaunched", "waiting", "done"}

\* C27: the step that computes the hash and the tag of a service is taken
\* without one of the permits: the permits taken at that step are all held by
\* other services
C27_HashingHoldsNoPermit ==
  [][\A s \in 1..MaxServices :
       (s \in Services /\ hash[s] = "" /\ hash'[s] # "") =>
          semaphore <= Cardinality({t \in Services \ {s} : HoldsPermit(t)})]_vars

\* C28: under a fair scheduler and with calls that return, BuildServices
\* returns, every service goroutine has ended, none is left waiting for a
\* permit or at its send, and every permit has been given back
C28_Terminates ==
  <>[](/\ mainPc = "returned"
       /\ ret.returned
       /\ \A s \in Services : pc[s] = "done"
       /\ semaphore = 0)

\* BuildServices returned after two services or more shared one permit
C28_Witness ==
  /\ numServices >= 2
  /\ parallel = 1
  /\ ret.returned
  /\ \A s \in Services : pc[s] = "done"
  /\ semaphore = 0

\* C30: when the parameters submitted for a service change (its args merged
\* with ExtraBuildArgs, or its target stage), its content hash and its tag
\* change, and with the image of the old parameters on the host the service
\* is built again
C30_ParameterChangeRebuilds ==
  (call.op = "buildService" /\ call.done /\ call.submittedX # call.submittedY) =>
     /\ call.hashX # call.hashY
     /\ call.tagX # call.tagY
     /\ call.decisionY = "build"

====
